---- MODULE Spec2Model ----
(***************************************************************************)
(* Model of backend/server.py of the IT project planner.                   *)
(*                                                                         *)
(* Two parts of the server are modelled:                                   *)
(*   - the estimation engine inside analyze_project (PERT estimate, cost   *)
(*     roll-up, dependency graph, networkx longest path), specification    *)
(*     Spec: Init draws the decomposition the generative model returned    *)
(*     and the actions run analyze_project over it; SpecRerun adds further *)
(*     runs on the same decomposition;                                     *)
(*   - the conversational intake (start_conversation, chat_response) with  *)
(*     the await points of the handler, and analyze_project called on the  *)
(*     conversation, specification SpecChat.                               *)
(*                                                                         *)
(* Durations are Python floats in the source.  The model holds them as     *)
(* exact fixed-point numbers with Unit units per day, so that the division *)
(* by 6 of the PERT formula is exact; floating-point rounding is outside   *)
(* the model.  networkx is modelled as of the 3.x series (topological_sort *)
(* by generations, dag_longest_path with first-maximum tie-breaks).        *)
(***************************************************************************)
EXTENDS Integers, Sequences, FiniteSets, TLC

VARIABLES
    decomposition,   \* the dict decompose_project_with_groq returned
    pc,              \* position of analyze_project: begin, loop, done, failed
    idx,             \* index of the next task_data of the for loop
    tasks,           \* list of TaskEstimate built so far
    total_cost,      \* running total_cost
    dependencies,    \* dict task id -> dependency ids, in insertion order
    G,               \* the DiGraph calculate_critical_path built
    estimate,        \* the ProjectEstimate (meaningful when status = 200)
    status,          \* HTTP status of the analyze response, 0 while running
    conversations,   \* db.conversations: the stored conversation or NoDoc
    calls,           \* chat_response calls in flight and finished
    project_estimates, \* db.project_estimates: the documents inserted
    runs,            \* analyze_project runs started on the decomposition
    previous         \* status and estimate of the run before this one

engine_vars == <<decomposition, pc, idx, tasks, total_cost, dependencies, G,
                 estimate, status, project_estimates, runs, previous>>
chat_vars == <<conversations, calls>>
vars == <<decomposition, pc, idx, tasks, total_cost, dependencies, G,
          estimate, status, conversations, calls, project_estimates, runs,
          previous>>

----------------------------------------------------------------------------
(* Bounds of the input families.                                           *)

MaxTasks == 2      \* tasks of a generated task list
MaxDeps == 1       \* dependency ids a generated task declares
MaxDay == 3        \* largest day count of a generated duration field
MaxRoles == 2      \* role allocations of a generated task
MaxCalls == 4      \* chat_response calls made on the conversation
MaxRuns == 2       \* analyze_project runs on one decomposition

----------------------------------------------------------------------------
(* Sequence helpers.                                                       *)

Range(s) == {s[i] : i \in DOMAIN s}

Contains(s, x) == \E i \in DOMAIN s : s[i] = x

Min2(a, b) == IF a <= b THEN a ELSE b

\* Sequences over S without repetition, of length at most n.
RECURSIVE DistinctSeqs(_, _)
DistinctSeqs(S, n) ==
    IF n = 0 THEN {<< >>}
    ELSE LET shorter == DistinctSeqs(S, n - 1)
         IN shorter \cup
            UNION {{Append(q, x) : x \in S \ Range(q)} : q \in shorter}

\* Sequences over S of length at most n.
RECURSIVE SeqsUpTo(_, _)
SeqsUpTo(S, n) ==
    IF n = 0 THEN {<< >>}
    ELSE LET shorter == SeqsUpTo(S, n - 1)
         IN shorter \cup {Append(s, x) : s \in shorter, x \in S}

----------------------------------------------------------------------------
(* JSON values of the decomposition.                                       *)

Num(n) == [t |-> "num", v |-> n]
Absent == [t |-> "absent", v |-> 0]       \* the key is not in the dict
Null == [t |-> "null", v |-> 0]           \* JSON null, Python None
NonNumeric == [t |-> "str", v |-> 0]      \* a non-numeric string

\* dict.get(key, default) on a field of a JSON object
Get(field, default) == IF field.t = "absent" THEN Num(default) ELSE field

IsNumber(x) == x.t = "num"

RoleName(r) == [t |-> "str", s |-> r]
RoleAbsent == [t |-> "absent", s |-> ""]

----------------------------------------------------------------------------
(* Helper functions of server.py.                                          *)

Unit == 6    \* fixed-point units per day: the divisor of the PERT formula

Fixed(days) == days * Unit

DefaultOptimistic == 5
DefaultMostLikely == 10
DefaultPessimistic == 15
DefaultHours == 40
DefaultRate == 1000

DEFAULT_RATES ==
    ("Junior Developer" :> 400) @@ ("Mid Developer" :> 800) @@
    ("Senior Developer" :> 1500) @@ ("Architect" :> 2500) @@
    ("QA Engineer" :> 600) @@ ("Project Manager" :> 1800) @@
    ("UI/UX Designer" :> 1200) @@ ("DevOps Engineer" :> 1800)

\* the PERT formula on the triple sorted into optimistic <= most likely <=
\* pessimistic: what a reordering implementation would return
calculate_pert_estimate_reordered(optimistic, most_likely, pessimistic) ==
    LET lo == Min2(optimistic, Min2(most_likely, pessimistic))
        hi == -Min2(-optimistic, Min2(-most_likely, -pessimistic))
        mid == optimistic + most_likely + pessimistic - lo - hi
    IN (lo + 4 * mid + hi) \div 6

\* (optimistic + 4 * most_likely + pessimistic) / 6 on fixed-point durations
calculate_pert_estimate(optimistic, most_likely, pessimistic) ==
    (optimistic + 4 * most_likely + pessimistic) \div 6

\* DEFAULT_RATES.get(role, 1000)
RateOf(role) ==
    IF role \in DOMAIN DEFAULT_RATES THEN DEFAULT_RATES[role] ELSE DefaultRate

\* role_data.get("role", "Developer")
RoleOf(role_data) ==
    IF role_data.role.t = "absent" THEN "Developer" ELSE role_data.role.s

\* one role allocation costed from its pessimistic hours: what a cost
\* roll-up over the wrong hours field would return
RoleCostPessimistic(role_data) ==
    role_data.hours_pessimistic.v * RateOf(RoleOf(role_data))

\* hours * rate of one role allocation; hours is a number here
RoleCost(role_data) ==
    Get(role_data.hours_most_likely, DefaultHours).v * RateOf(RoleOf(role_data))

\* the inner loop of analyze_project: task_cost += hours * rate
RECURSIVE TaskCost(_)
TaskCost(roles) ==
    IF roles = << >> THEN 0
    ELSE RoleCost(Head(roles)) + TaskCost(Tail(roles))

\* hours * rate and task_cost += ... raise TypeError unless hours is a number
CostRaises(roles) ==
    \E i \in DOMAIN roles :
        ~IsNumber(Get(roles[i].hours_most_likely, DefaultHours))

----------------------------------------------------------------------------
(* networkx.DiGraph as calculate_critical_path uses it.  nodes and edges   *)
(* keep their insertion order, which decides the order of iteration.       *)

EmptyGraph == [nodes |-> << >>, edges |-> << >>]

NodeIds(g) == [i \in DOMAIN g.nodes |-> g.nodes[i].id]

HasNode(g, n) == \E i \in DOMAIN g.nodes : g.nodes[i].id = n

\* G.add_node(n, duration=d)
add_node(g, n, d) ==
    IF HasNode(g, n)
    THEN [g EXCEPT !.nodes =
             [i \in DOMAIN g.nodes |->
                 IF g.nodes[i].id = n THEN [id |-> n, duration |-> Num(d)]
                 ELSE g.nodes[i]]]
    ELSE [g EXCEPT !.nodes = Append(@, [id |-> n, duration |-> Num(d)])]

\* the node G.add_edge creates for an end point the graph does not hold yet
ImplicitNode(g, n) ==
    IF HasNode(g, n) THEN g
    ELSE [g EXCEPT !.nodes = Append(@, [id |-> n, duration |-> Absent])]

\* G.add_edge(u, v): no edge attributes are given
add_edge(g, u, v) ==
    LET g2 == ImplicitNode(ImplicitNode(g, u), v)
    IN IF Contains(g2.edges, <<u, v>>) THEN g2
       ELSE [g2 EXCEPT !.edges = Append(@, <<u, v>>)]

\* for task in tasks: G.add_node(task["id"], duration=task["expected_days"])
RECURSIVE AddNodes(_, _)
AddNodes(g, task_dicts) ==
    IF task_dicts = << >> THEN g
    ELSE AddNodes(add_node(g, Head(task_dicts).id, Head(task_dicts).expected_days),
                  Tail(task_dicts))

\* for dep in deps: G.add_edge(dep, task_id)
RECURSIVE AddDeps(_, _, _)
AddDeps(g, task_id, deps) ==
    IF deps = << >> THEN g
    ELSE AddDeps(add_edge(g, Head(deps), task_id), task_id, Tail(deps))

\* for task_id, deps in dependencies.items(): ...
RECURSIVE AddEdges(_, _)
AddEdges(g, deps_items) ==
    IF deps_items = << >> THEN g
    ELSE AddEdges(AddDeps(g, Head(deps_items).key, Head(deps_items).value),
                  Tail(deps_items))

BuildGraph(task_dicts, deps_items) ==
    AddEdges(AddNodes(EmptyGraph, task_dicts), deps_items)

\* G.pred[v] and G.neighbors(u), in the order the edges were added
Predecessors(g, v) ==
    LET into == SelectSeq(g.edges, LAMBDA e : e[2] = v)
    IN [i \in DOMAIN into |-> into[i][1]]

Successors(g, u) ==
    LET outof == SelectSeq(g.edges, LAMBDA e : e[1] = u)
    IN [i \in DOMAIN outof |-> outof[i][2]]

InDegree(g, v) == Cardinality({i \in DOMAIN g.edges : g.edges[i][2] = v})

\* for child in G.neighbors(node): indegree_map[child] -= 1; a child that
\* reaches 0 joins the next generation
RECURSIVE VisitChildren(_, _, _)
VisitChildren(children, indegree_map, zero_indegree) ==
    IF children = << >>
    THEN [indegree_map |-> indegree_map, zero_indegree |-> zero_indegree]
    ELSE LET child == Head(children)
             d == indegree_map[child] - 1
         IN VisitChildren(Tail(children),
                          [indegree_map EXCEPT ![child] = d],
                          IF d = 0 THEN Append(zero_indegree, child)
                          ELSE zero_indegree)

RECURSIVE VisitGeneration(_, _, _, _)
VisitGeneration(g, generation, indegree_map, zero_indegree) ==
    IF generation = << >>
    THEN [indegree_map |-> indegree_map, zero_indegree |-> zero_indegree]
    ELSE LET r == VisitChildren(Successors(g, Head(generation)),
                                indegree_map, zero_indegree)
         IN VisitGeneration(g, Tail(generation), r.indegree_map, r.zero_indegree)

\* nx.topological_generations: unfeasible when nodes are left with a positive
\* in-degree, which is when the graph has a cycle
RECURSIVE Generations(_, _, _, _)
Generations(g, zero_indegree, indegree_map, order) ==
    IF zero_indegree = << >>
    THEN [order |-> order,
          unfeasible |-> \E n \in DOMAIN indegree_map : indegree_map[n] > 0]
    ELSE LET r == VisitGeneration(g, zero_indegree, indegree_map, << >>)
         IN Generations(g, r.zero_indegree, r.indegree_map,
                        order \o zero_indegree)

\* nx.topological_sort(G)
topological_sort(g) ==
    Generations(g,
                SelectSeq(NodeIds(g), LAMBDA n : InDegree(g, n) = 0),
                [n \in Range(NodeIds(g)) |-> InDegree(g, n)],
                << >>)

\* data.get(weight, default_weight) of an edge: the edges carry no
\* "duration" attribute, so every edge weighs default_weight = 1
EdgeWeight(g, u, v) == 1

\* max(us, key=lambda x: x[0]): the first of the largest
FirstMax(us) ==
    us[CHOOSE i \in DOMAIN us :
           /\ \A j \in DOMAIN us : us[j][1] <= us[i][1]
           /\ \A j \in DOMAIN us : j < i => us[j][1] < us[i][1]]

\* the relaxation loop of dag_longest_path: dist[v] = (length, predecessor)
RECURSIVE Relax(_, _, _)
Relax(g, order, dist) ==
    IF order = << >> THEN dist
    ELSE LET v == Head(order)
             preds == Predecessors(g, v)
             us == [i \in DOMAIN preds |->
                       <<dist[preds[i]][1] + EdgeWeight(g, preds[i], v), preds[i]>>]
             maxu == IF us = << >> THEN <<0, v>> ELSE FirstMax(us)
         IN Relax(g, Tail(order),
                  dist @@ (v :> IF maxu[1] >= 0 THEN maxu ELSE <<0, v>>))

\* the walk along the predecessor pointers without the final reversal: the
\* path from the last task back to the first
RECURSIVE WalkBackUnreversed(_, _, _)
WalkBackUnreversed(dist, v, path) ==
    IF dist[v][2] = v THEN path \o <<v>>
    ELSE WalkBackUnreversed(dist, dist[v][2], path \o <<v>>)

\* walk the predecessor pointers back from v; the path comes out reversed
RECURSIVE WalkBack(_, _, _)
WalkBack(dist, v, path) ==
    IF dist[v][2] = v THEN <<v>> \o path
    ELSE WalkBack(dist, dist[v][2], <<v>> \o path)

\* nx.dag_longest_path(G, weight='duration')
dag_longest_path(g) ==
    IF g.nodes = << >> THEN [raised |-> FALSE, path |-> << >>]
    ELSE LET topo == topological_sort(g)
         IN IF topo.unfeasible THEN [raised |-> TRUE, path |-> << >>]
            ELSE LET dist == Relax(g, topo.order, << >>)
                     lens == [i \in DOMAIN topo.order |->
                                 <<dist[topo.order[i]][1], topo.order[i]>>]
                 IN [raised |-> FALSE,
                     path |-> WalkBack(dist, FirstMax(lens)[2], << >>)]

\* try: return nx.dag_longest_path(...)  except: return []
calculate_critical_path(task_dicts, deps_items) ==
    LET r == dag_longest_path(BuildGraph(task_dicts, deps_items))
    IN IF r.raised THEN << >> ELSE r.path

----------------------------------------------------------------------------
(* The decompositions analyze_project is run on.                           *)

TaskIds == <<"T1", "T2", "T3", "T4">>
DanglingId == "T99"

TaskData(id, deps, roles, o, m, p) ==
    [id |-> id, dependencies |-> deps, roles |-> roles,
     optimistic_days |-> o, most_likely_days |-> m, pessimistic_days |-> p]

TaskList(items) == [tasks |-> [t |-> "list", items |-> items]]
NotATaskList(kind) == [tasks |-> [t |-> kind, items |-> << >>]]

\* task lists T1..Tn over every choice of dependency lists (known ids, the
\* task itself, the dangling id) and of two durations
GraphDays == {1, 2, 5}

GraphChoices(n) ==
    DistinctSeqs({TaskIds[k] : k \in 1..n} \cup {DanglingId}, MaxDeps)
        \X GraphDays

GraphInput(n, c) ==
    TaskList([k \in 1..n |->
                 TaskData(TaskIds[k], c[k][1], << >>,
                          Num(c[k][2]), Num(c[k][2]), Num(c[k][2]))])

IsGraphInput(d) ==
    \E n \in 0..MaxTasks : \E c \in [1..n -> GraphChoices(n)] :
        d = GraphInput(n, c)

\* one task over every triple of duration fields, well-formed or not
DayFields == {Num(d) : d \in 0..MaxDay} \cup {Absent, Null, NonNumeric}

PertInput(o, m, p) == TaskList(<<TaskData("T1", << >>, << >>, o, m, p)>>)

IsPertInput(d) ==
    \E o \in DayFields, m \in DayFields, p \in DayFields :
        d = PertInput(o, m, p)

Alloc(role, ho, hml, hp) ==
    [role |-> role, hours_optimistic |-> ho, hours_most_likely |-> hml,
     hours_pessimistic |-> hp]

RoleAllocs ==
    {Alloc(RoleName("Junior Developer"), Num(5), Num(10), Num(20)),
     Alloc(RoleName("Junior Developer"), Num(1), Num(10), Num(99)),
     Alloc(RoleName("Mid Developer"), Num(2), Num(5), Num(8)),
     Alloc(RoleName("C"), Num(2), Num(5), Num(8)),
     Alloc(RoleAbsent, Num(5), Num(10), Num(20)),
     Alloc(RoleName("Architect"), Num(5), Absent, Num(20))}

RoleLists == SeqsUpTo(RoleAllocs, MaxRoles)

CostTask(id, roles) == TaskData(id, << >>, roles, Absent, Absent, Absent)

\* one or two tasks over every list of role allocations
IsCostInput(d) ==
    \/ \E r \in RoleLists : d = TaskList(<<CostTask("T1", r)>>)
    \/ \E r1 \in RoleLists, r2 \in RoleLists :
           d = TaskList(<<CostTask("T1", r1), CostTask("T2", r2)>>)

\* decompositions that hold no list of task objects, and a task whose
\* hours are not a number
MalformedInputs ==
    {NotATaskList(k) :
        k \in {"absent", "null", "str", "list_of_str", "empty_dict"}}
    \cup {TaskList(<<TaskData("T1", << >>,
                     <<Alloc(RoleName("Architect"), Num(1), Null, Num(2))>>,
                     Num(1), Num(1), Num(1))>>)}

DayTask(id, deps, d) == TaskData(id, deps, << >>, Num(d), Num(d), Num(d))

\* the diamond T1 -> {T2, T3} -> T4 with expected_days 1, 5, 2, 1
Diamond ==
    TaskList(<<DayTask("T1", << >>, 1), DayTask("T2", <<"T1">>, 5),
               DayTask("T3", <<"T1">>, 2), DayTask("T4", <<"T2", "T3">>, 1)>>)

\* the same diamond, T4 declaring its dependencies in the other order
DiamondReversed ==
    TaskList(<<DayTask("T1", << >>, 1), DayTask("T2", <<"T1">>, 5),
               DayTask("T3", <<"T1">>, 2), DayTask("T4", <<"T3", "T2">>, 1)>>)

\* T1 -> T2 -> T3 -> T1 with a task T4 outside the cycle
ThreeCycle ==
    TaskList(<<DayTask("T1", <<"T3">>, 1), DayTask("T2", <<"T1">>, 5),
               DayTask("T3", <<"T2">>, 2), DayTask("T4", << >>, 1)>>)

ScenarioInputs == {Diamond, DiamondReversed, ThreeCycle}

----------------------------------------------------------------------------
(* analyze_project.                                                        *)

NoEstimate ==
    [tasks |-> << >>, total_cost |-> 0, total_duration_days |-> 0,
     critical_path |-> << >>]

\* an iteration that also rejects an empty list of tasks
IterRaisesOnEmpty(d) ==
    \/ d.tasks.t \in {"null", "str", "list_of_str"}
    \/ d.tasks.t = "list" /\ d.tasks.items = << >>

\* iterating decomposition.get("tasks", []) raises unless the value is a
\* list of objects or an empty container
IterRaises(d) == d.tasks.t \in {"null", "str", "list_of_str"}

\* the task_data objects the for loop visits
Items(d) == IF d.tasks.t = "list" THEN d.tasks.items ELSE << >>

\* calculate_pert_estimate raises TypeError unless the three are numbers
PertRaises(o, m, p) == ~(IsNumber(o) /\ IsNumber(m) /\ IsNumber(p))

\* dependencies[task.id] = task.dependencies on an insertion-ordered dict
DictSet(d, k, v) ==
    IF \E i \in DOMAIN d : d[i].key = k
    THEN [i \in DOMAIN d |->
             IF d[i].key = k THEN [key |-> k, value |-> v] ELSE d[i]]
    ELSE Append(d, [key |-> k, value |-> v])

RECURSIVE SumExpected(_)
SumExpected(ts) ==
    IF ts = << >> THEN 0
    ELSE Head(ts).expected_days + SumExpected(Tail(ts))

\* the total duration without the fallback for an empty critical path
TotalDurationNoFallback(ts, critical_path) ==
    SumExpected(SelectSeq(ts, LAMBDA t : Contains(critical_path, t.id)))

\* sum(t.expected_days for t in tasks if t.id in critical_path)
\*   if critical_path else sum(t.expected_days for t in tasks)
TotalDuration(ts, critical_path) ==
    IF critical_path # << >>
    THEN SumExpected(SelectSeq(ts, LAMBDA t : Contains(critical_path, t.id)))
    ELSE SumExpected(ts)

\* the TaskEstimate of one task_data whose durations are numbers
TaskEstimate(task_data) ==
    LET o == Fixed(Get(task_data.optimistic_days, DefaultOptimistic).v)
        m == Fixed(Get(task_data.most_likely_days, DefaultMostLikely).v)
        p == Fixed(Get(task_data.pessimistic_days, DefaultPessimistic).v)
    IN [id |-> task_data.id,
        dependencies |-> task_data.dependencies,
        roles |-> task_data.roles,
        optimistic_days |-> o, most_likely_days |-> m, pessimistic_days |-> p,
        expected_days |-> calculate_pert_estimate(o, m, p)]

\* except Exception as e: raise HTTPException(status_code=500, ...)
AnalysisFailed ==
    /\ pc' = "failed"
    /\ status' = 500
    /\ UNCHANGED <<decomposition, idx, tasks, total_cost, dependencies, G,
                   estimate, project_estimates, runs, previous>>

\* the start of the loop with tasks, total_cost and dependencies kept from
\* the run before, as accumulators shared by the invocations would be
analyze_project_begin_keeps_totals ==
    /\ pc = "begin"
    /\ IF IterRaises(decomposition)
       THEN AnalysisFailed
       ELSE /\ pc' = "loop"
            /\ idx' = 1
            /\ UNCHANGED <<decomposition, tasks, total_cost, dependencies, G,
                           estimate, status, project_estimates, runs, previous>>
    /\ UNCHANGED chat_vars

\* decomposition = await decompose_project_with_groq(...); tasks = [];
\* total_cost = 0; dependencies = {}; the for loop starts
analyze_project_begin ==
    /\ pc = "begin"
    /\ IF IterRaises(decomposition)
       THEN AnalysisFailed
       ELSE /\ pc' = "loop"
            /\ idx' = 1
            /\ tasks' = << >>
            /\ total_cost' = 0
            /\ dependencies' = << >>
            /\ UNCHANGED <<decomposition, G, estimate, status,
                           project_estimates, runs, previous>>
    /\ UNCHANGED chat_vars

\* one iteration of the for loop over the task_data
analyze_project_task ==
    /\ pc = "loop"
    /\ idx <= Len(Items(decomposition))
    /\ LET task_data == Items(decomposition)[idx]
           opt_days == Get(task_data.optimistic_days, DefaultOptimistic)
           ml_days == Get(task_data.most_likely_days, DefaultMostLikely)
           pess_days == Get(task_data.pessimistic_days, DefaultPessimistic)
       IN IF PertRaises(opt_days, ml_days, pess_days)
             \/ CostRaises(task_data.roles)
          THEN AnalysisFailed
          ELSE LET task == TaskEstimate(task_data)
               IN /\ tasks' = Append(tasks, task)
                  /\ total_cost' = total_cost + TaskCost(task_data.roles)
                  /\ dependencies' =
                         DictSet(dependencies, task.id, task.dependencies)
                  /\ idx' = idx + 1
                  /\ UNCHANGED <<decomposition, pc, G, estimate, status,
                                 project_estimates, runs, previous>>
    /\ UNCHANGED chat_vars

\* after the loop: critical path, total duration, the ProjectEstimate and
\* its insertion; the handler returns the estimate
analyze_project_finish ==
    /\ pc = "loop"
    /\ idx > Len(Items(decomposition))
    /\ LET task_dicts == [i \in DOMAIN tasks |->
                             [id |-> tasks[i].id,
                              expected_days |-> tasks[i].expected_days]]
           critical_path == calculate_critical_path(task_dicts, dependencies)
       IN /\ G' = BuildGraph(task_dicts, dependencies)
          /\ estimate' =
                 [tasks |-> tasks,
                  total_cost |-> total_cost,
                  total_duration_days |-> TotalDuration(tasks, critical_path),
                  critical_path |-> critical_path]
    /\ project_estimates' =
           Append(project_estimates,
                  [project_id |-> conversations.project_id,
                   estimate |-> estimate'])
    /\ pc' = "done"
    /\ status' = 200
    /\ UNCHANGED <<decomposition, idx, tasks, total_cost, dependencies, runs,
                   previous>>
    /\ UNCHANGED chat_vars

----------------------------------------------------------------------------
(* The conversational intake: start_conversation and chat_response.        *)

Steps == <<"greeting", "details", "constraints", "ready_for_analysis">>

UserMessages == {"a", "b"}

ConversationId == "conv-1"
ProjectId == "proj-1"

Greeting == "Hi! I'm your IT Project Planning Assistant."

\* no document of db.conversations matches the id
NoDoc == [id |-> "", project_id |-> "", current_step |-> "", messages |-> << >>,
          context |-> {}]

Message(role, content) == [role |-> role, content |-> content]

\* conversation["context"].update({key: value})
ContextUpdate(context, key, value) ==
    {kv \in context : kv[1] # key} \cup {<<key, value>>}

\* the if / elif chain of chat_response on the conversation just read,
\* the user message already appended
ChatStep(conversation, user_message) ==
    LET current_step == conversation.current_step
    IN IF current_step = "greeting"
       THEN [conversation |->
                [conversation EXCEPT
                    !.context = ContextUpdate(@, "initial_input", user_message),
                    !.current_step = "details"],
             assistant_response |-> "Great! Now I need more details"]
       ELSE IF current_step = "details"
       THEN [conversation |->
                [conversation EXCEPT
                    !.context = ContextUpdate(@, "additional_details", user_message),
                    !.current_step = "constraints"],
             assistant_response |-> "Perfect! A few more questions"]
       ELSE IF current_step = "constraints"
       THEN [conversation |->
                [conversation EXCEPT
                    !.context = ContextUpdate(@, "constraints", user_message),
                    !.current_step = "ready_for_analysis"],
             assistant_response |-> "Excellent! I have all the information needed."]
       ELSE [conversation |-> conversation, assistant_response |-> ""]

\* the conversation chat_response writes back, from the one it read
ChatUpdate(conversation, user_message) ==
    LET with_user == [conversation EXCEPT
                         !.messages = Append(@, Message("user", user_message))]
        stepped == ChatStep(with_user, user_message)
    IN [stepped.conversation EXCEPT
           !.messages = Append(@, Message("assistant", stepped.assistant_response))]

IdleCall == [pc |-> "idle", content |-> "", conversation |-> NoDoc,
             status |-> 0, step |-> ""]

\* the ConversationState start_conversation builds
NewConversation ==
    [id |-> ConversationId, project_id |-> ProjectId,
     current_step |-> "greeting",
     messages |-> <<Message("assistant", Greeting)>>,
     context |-> {}]

\* the conversation after the three intake answers
IntakeDone == ChatUpdate(ChatUpdate(ChatUpdate(NewConversation, "a"), "b"), "a")

\* POST /chat/start: a new conversation with the greeting, inserted
start_conversation ==
    /\ conversations = NoDoc
    /\ conversations' = NewConversation
    /\ UNCHANGED calls
    /\ UNCHANGED engine_vars

\* chat_response up to its first await: the conversation is read, or 404
chat_response_find(c) ==
    /\ calls[c].pc = "idle"
    /\ \E user_message \in UserMessages :
           calls' = [calls EXCEPT ![c] =
               IF conversations = NoDoc
               THEN [IdleCall EXCEPT !.pc = "done", !.status = 404]
               ELSE [IdleCall EXCEPT !.pc = "found", !.content = user_message,
                                     !.conversation = conversations]]
    /\ UNCHANGED conversations
    /\ UNCHANGED engine_vars

\* chat_response from the read to its return: the conversation read is
\* modified in memory and replaces the stored document as a whole
chat_response_replace(c) ==
    /\ calls[c].pc = "found"
    /\ LET conversation == ChatUpdate(calls[c].conversation, calls[c].content)
       IN /\ conversations' = conversation
          /\ calls' = [calls EXCEPT ![c] =
                 [IdleCall EXCEPT !.pc = "done", !.status = 200,
                                  !.step = conversation.current_step]]
    /\ UNCHANGED engine_vars

\* what decompose_project_with_groq answers in the runs of the intake
GroqAnswers ==
    {TaskList(<<DayTask("T1", << >>, 1), DayTask("T2", <<"T1">>, 5)>>),
     NotATaskList("null")}

\* analyze_project up to the decomposition: the conversation is read (404
\* when there is none), project_data is built from its context and the
\* generative model answers.  current_step is not looked at.
analyze_project_find ==
    /\ pc = "idle"
    /\ IF conversations = NoDoc
       THEN /\ pc' = "failed"
            /\ status' = 404
            /\ UNCHANGED decomposition
       ELSE /\ \E d \in GroqAnswers : decomposition' = d
            /\ pc' = "begin"
            /\ UNCHANGED status
    /\ UNCHANGED <<idx, tasks, total_cost, dependencies, G, estimate,
                   project_estimates, runs, previous>>
    /\ UNCHANGED chat_vars

NoRun == [status |-> 0, estimate |-> NoEstimate]

\* a further POST /analyze on the same conversation, the generative model
\* answering with the same decomposition
analyze_project_again ==
    /\ pc \in {"done", "failed"}
    /\ runs < MaxRuns
    /\ previous' = [status |-> status, estimate |-> estimate]
    /\ runs' = runs + 1
    /\ pc' = "begin"
    /\ status' = 0
    /\ UNCHANGED <<decomposition, idx, tasks, total_cost, dependencies, G,
                   estimate, project_estimates>>
    /\ UNCHANGED chat_vars

Init ==
    /\ \/ IsGraphInput(decomposition)
       \/ IsPertInput(decomposition)
       \/ IsCostInput(decomposition)
       \/ decomposition \in MalformedInputs
       \/ decomposition \in ScenarioInputs
    /\ pc = "begin"
    /\ idx = 1
    /\ tasks = << >>
    /\ total_cost = 0
    /\ dependencies = << >>
    /\ G = EmptyGraph
    /\ estimate = NoEstimate
    /\ status = 0
    /\ conversations = IntakeDone
    /\ calls = << >>
    /\ project_estimates = << >>
    /\ runs = 1
    /\ previous = NoRun

Next ==
    \/ analyze_project_begin
    \/ analyze_project_task
    \/ analyze_project_finish

Spec == Init /\ [][Next]_vars

NextRerun ==
    \/ analyze_project_begin
    \/ analyze_project_task
    \/ analyze_project_finish
    \/ analyze_project_again

SpecRerun == Init /\ [][NextRerun]_vars

InitChat ==
    /\ decomposition = NotATaskList("absent")
    /\ pc = "idle"
    /\ idx = 1
    /\ tasks = << >>
    /\ total_cost = 0
    /\ dependencies = << >>
    /\ G = EmptyGraph
    /\ estimate = NoEstimate
    /\ status = 0
    /\ conversations = NoDoc
    /\ calls = [c \in 1..MaxCalls |-> IdleCall]
    /\ project_estimates = << >>
    /\ runs = 1
    /\ previous = NoRun

NextChat ==
    \/ start_conversation
    \/ \E c \in 1..MaxCalls : chat_response_find(c)
    \/ \E c \in 1..MaxCalls : chat_response_replace(c)
    \/ analyze_project_find
    \/ analyze_project_begin
    \/ analyze_project_task
    \/ analyze_project_finish

SpecChat == InitChat /\ [][NextChat]_vars

----------------------------------------------------------------------------
(* Reference notions the properties are stated with.  They are defined     *)
(* from the declared task list, independently of the graph code above.     *)

Max(S) == IF S = {} THEN 0 ELSE CHOOSE x \in S : \A y \in S : y <= x

\* the task_data objects of the decomposition and their ids
Declared == Items(decomposition)
DeclaredIds == {Declared[i].id : i \in DOMAIN Declared}

DepsOf(id) ==
    UNION {Range(Declared[i].dependencies) :
              i \in {j \in DOMAIN Declared : Declared[j].id = id}}

\* the declared dependency ids that name no task of the list
DanglingDeps == UNION {DepsOf(id) : id \in DeclaredIds} \ DeclaredIds

\* every id the ids of S depend on, directly or through other tasks
RECURSIVE DepsClosure(_)
DepsClosure(S) ==
    LET more == S \cup UNION {DepsOf(id) : id \in S}
    IN IF more = S THEN S ELSE DepsClosure(more)

\* some task depends on itself, directly or through other tasks
DeclaredCyclic == \E id \in DeclaredIds : id \in DepsClosure(DepsOf(id))

\* every duration field is a number or left out, and every hours field too
WellFormedDurations ==
    \A i \in DOMAIN Declared :
        \A f \in {Declared[i].optimistic_days, Declared[i].most_likely_days,
                  Declared[i].pessimistic_days} : f.t \in {"num", "absent"}

WellFormedHours ==
    \A i \in DOMAIN Declared : \A j \in DOMAIN Declared[i].roles :
        Declared[i].roles[j].hours_most_likely.t \in {"num", "absent"}

IsListOfTasks == decomposition.tasks.t = "list"

\* expected_days of the estimated task with this id
ExpectedOf(id) ==
    LET i == CHOOSE k \in DOMAIN estimate.tasks : estimate.tasks[k].id = id
    IN estimate.tasks[i].expected_days

\* the sum of the values of a function with a finite domain
RECURSIVE SumFn(_)
SumFn(f) ==
    IF DOMAIN f = {} THEN 0
    ELSE LET x == CHOOSE y \in DOMAIN f : TRUE
         IN f[x] + SumFn([y \in DOMAIN f \ {x} |-> f[y]])

\* the largest total expected_days of a dependency path that ends in id
\* (defined when the declared graph is acyclic and has no dangling id)
RECURSIVE LongestTo(_)
LongestTo(id) ==
    ExpectedOf(id) + Max({LongestTo(d) : d \in DepsOf(id)})

MaxPathWeight == Max({LongestTo(id) : id \in DeclaredIds})

\* total expected_days of the tasks the critical path names
CriticalPathWeight ==
    SumFn([i \in {k \in DOMAIN estimate.tasks :
                      Contains(estimate.critical_path, estimate.tasks[k].id)}
              |-> estimate.tasks[i].expected_days])

\* the largest expected_days of a single task
MaxExpected ==
    Max({estimate.tasks[i].expected_days : i \in DOMAIN estimate.tasks})

----------------------------------------------------------------------------
(* C1: for an acyclic task list with unique ids and no dangling dependency *)
(* id, the expected_days of the critical path add up to the largest total  *)
(* of any dependency path; for the diamond of the specification it is 7.   *)
C1_CriticalPathIsLongest ==
    (pc = "done" /\ ~DeclaredCyclic /\ DanglingDeps = {})
        => /\ CriticalPathWeight = MaxPathWeight
           /\ decomposition = Diamond => CriticalPathWeight = Fixed(7)

(* C2: for a non-empty task list with an acyclic dependency graph,         *)
(* total_duration_days is at least the largest expected_days of a task.    *)
C2_DurationCoversLongestTask ==
    (pc = "done" /\ estimate.tasks # << >> /\ ~DeclaredCyclic)
        => estimate.total_duration_days >= MaxExpected

(* C3: every id of the critical_path of the estimate is the id of exactly  *)
(* one task of the estimate, whatever dependency ids were declared.        *)
C3_CriticalPathNamesTasks ==
    pc = "done" =>
        \A i \in DOMAIN estimate.critical_path :
            Cardinality({k \in DOMAIN estimate.tasks :
                estimate.tasks[k].id = estimate.critical_path[i]}) = 1

(* C4: a dependency id that names no task of the list adds neither a node  *)
(* nor an edge to the graph, and the run ends with an estimate.            *)
C4_DanglingDependencyDropped ==
    (IsListOfTasks /\ WellFormedDurations /\ WellFormedHours
         /\ DanglingDeps # {})
        => /\ pc # "failed"
           /\ pc = "done" =>
                  /\ status = 200
                  /\ \A d \in DanglingDeps :
                         /\ ~HasNode(G, d)
                         /\ \A i \in DOMAIN G.edges :
                                G.edges[i][1] # d /\ G.edges[i][2] # d

(* C5: when the declared dependencies contain a cycle (T1 and T2 depending *)
(* on each other, a task depending on itself), the run does not fail, the  *)
(* critical path is empty and total_duration_days is the sum of the        *)
(* expected_days of all tasks.                                             *)
C5_CycleFallsBackToSum ==
    (IsListOfTasks /\ WellFormedDurations /\ WellFormedHours /\ DeclaredCyclic)
        => /\ pc # "failed"
           /\ pc = "done" =>
                  /\ status = 200
                  /\ estimate.critical_path = << >>
                  /\ Len(estimate.tasks) = Len(Declared)
                  /\ estimate.total_duration_days =
                         SumFn([i \in DOMAIN estimate.tasks |->
                                   estimate.tasks[i].expected_days])

\* T1 and T2 depend on each other and the run has produced its estimate
C5_Witness ==
    /\ pc = "done"
    /\ Len(Declared) = 2
    /\ Declared[1].dependencies = <<"T2">>
    /\ Declared[2].dependencies = <<"T1">>
    /\ estimate.critical_path = << >>
    /\ estimate.total_duration_days > 0

(* C6: a task_data with a malformed duration field (null or non-numeric)   *)
(* does not abort the run: the defaults 5/10/15 days are used for it and   *)
(* analyze_project returns an estimate.                                    *)
C6_MalformedDurationTolerated ==
    (IsListOfTasks /\ WellFormedHours /\ ~WellFormedDurations)
        => /\ pc # "failed"
           /\ status # 500

(* C7: a decomposition without a tasks array, or whose tasks value is not  *)
(* a list of objects, ends analyze_project with an error; it never yields  *)
(* the estimate of an empty tasks array.                                   *)
C7_UnparsableTaskListFails ==
    ~IsListOfTasks =>
        /\ pc # "done"
        /\ status # 200

\* hours_most_likely times the rate of the role name, 1000 when the rate
\* table has no such name
AllocCost(a) ==
    a.hours_most_likely.v *
        (IF a.role.t = "str" /\ a.role.s \in DOMAIN DEFAULT_RATES
         THEN DEFAULT_RATES[a.role.s] ELSE 1000)

DeclaredTaskCost(i) ==
    SumFn([j \in DOMAIN Declared[i].roles |-> AllocCost(Declared[i].roles[j])])

AllHoursGiven ==
    \A i \in DOMAIN Declared : \A j \in DOMAIN Declared[i].roles :
        Declared[i].roles[j].hours_most_likely.t = "num"

\* roles [A: 10 h, C: 5 h] with A at 400 and C not in the rate table
CostExample ==
    <<Alloc(RoleName("Junior Developer"), Num(5), Num(10), Num(20)),
      Alloc(RoleName("C"), Num(2), Num(5), Num(8))>>

(* C8: total_cost is the sum over the tasks, and over the role allocations *)
(* of each task, of hours_most_likely times the rate of the role name,     *)
(* 1000 for a name the rate table does not hold; it is never negative and  *)
(* does not depend on hours_optimistic or hours_pessimistic; the roles     *)
(* [A: 10 h, C: 5 h] cost 9000.                                            *)
C8_CostIsSumOfRoleCosts ==
    (pc = "done" /\ IsListOfTasks /\ AllHoursGiven)
        => /\ estimate.total_cost =
                  SumFn([i \in DOMAIN Declared |-> DeclaredTaskCost(i)])
           /\ estimate.total_cost >= 0
           /\ (Len(Declared) = 1 /\ Declared[1].roles = CostExample)
                  => estimate.total_cost = 9000

\* two tasks with allocations, one of them the example, have been costed
C8_Witness ==
    /\ pc = "done"
    /\ Len(Declared) = 2
    /\ Declared[1].roles = CostExample
    /\ Len(Declared[2].roles) = 2
    /\ estimate.total_cost > 9000

(* C9: the expected_days of a task whose three duration fields are the     *)
(* numbers o, m, p is exactly (o + 4m + p) / 6, the arguments taken in the *)
(* positions given, also when the triple is inverted.                      *)
C9_PertFormulaVerbatim ==
    \A i \in DOMAIN tasks :
        LET o == Declared[i].optimistic_days
            m == Declared[i].most_likely_days
            p == Declared[i].pessimistic_days
        IN (IsNumber(o) /\ IsNumber(m) /\ IsNumber(p))
               => Unit * tasks[i].expected_days = Fixed(o.v + 4 * m.v + p.v)

\* an inverted triple (o > p, m below both) has been estimated, and the
\* result lies below the optimistic value
C9_Witness ==
    /\ pc = "done"
    /\ Len(tasks) = 1
    /\ Declared[1].optimistic_days = Num(3)
    /\ Declared[1].most_likely_days = Num(0)
    /\ Declared[1].pessimistic_days = Num(1)
    /\ tasks[1].expected_days < tasks[1].optimistic_days

\* the stored step counted along the script, 0 when there is no conversation
StepIndex(step) ==
    IF \E i \in DOMAIN Steps : Steps[i] = step
    THEN CHOOSE i \in DOMAIN Steps : Steps[i] = step
    ELSE 0

CompletedChats == Cardinality({c \in DOMAIN calls : calls[c].status = 200})

(* C10: current_step follows greeting, details, constraints,               *)
(* ready_for_analysis: every chat_response call on the conversation moves  *)
(* it to the next step, so after k completed calls it stands at step k + 1 *)
(* of the script, and from the third call on at ready_for_analysis.        *)
C10_StepFollowsScript ==
    conversations # NoDoc =>
        StepIndex(conversations.current_step) = Min2(CompletedChats, 3) + 1

(* C12: an empty task list yields a successful estimate, not an error:    *)
(* no tasks, critical_path = [], total_cost = 0, total_duration_days = 0.  *)
C12_EmptyListEstimate ==
    decomposition = TaskList(<< >>)
        => /\ pc # "failed"
           /\ status # 500
           /\ pc = "done" =>
                  /\ status = 200
                  /\ estimate.tasks = << >>
                  /\ estimate.critical_path = << >>
                  /\ estimate.total_cost = 0
                  /\ estimate.total_duration_days = 0
                  /\ G = EmptyGraph

\* the run over the empty task list has returned its estimate
C12_Witness ==
    /\ decomposition = TaskList(<< >>)
    /\ pc = "done"
    /\ status = 200

(* C13: a non-empty critical path runs from the earliest task to the       *)
(* latest along dependency edges: no id occurs twice, and every element    *)
(* after the first declares the element just before it as a dependency.    *)
C13_PathFollowsDependencies ==
    pc = "done" =>
        LET path == estimate.critical_path
        IN /\ \A i, j \in DOMAIN path : i # j => path[i] # path[j]
           /\ \A i \in DOMAIN path :
                  i > 1 => /\ path[i] \in DeclaredIds
                           /\ path[i - 1] \in DepsOf(path[i])

\* the diamond has been analysed and its path has three tasks, T1 first
C13_Witness ==
    /\ pc = "done"
    /\ decomposition = Diamond
    /\ Len(estimate.critical_path) = 3
    /\ estimate.critical_path[1] = "T1"
    /\ estimate.critical_path[3] = "T4"

C14_NoLostUpdate ==
    conversations # NoDoc =>
        /\ Len(conversations.messages) = 1 + 2 * CompletedChats
        /\ \A k \in 1..3 :
               CompletedChats >= k
                   => StepIndex(conversations.current_step) > k

(* C15: an estimate is inserted only for a conversation whose current_step *)
(* is ready_for_analysis, that is after its three intake steps, and        *)
(* analyze_project leaves the conversation record as it is.                *)
C15_AnalysisOnlyWhenReady ==
    [][/\ project_estimates' # project_estimates
           => conversations.current_step = "ready_for_analysis"
       /\ (pc' # pc \/ idx' # idx) => conversations' = conversations]_vars

====
